---- MODULE Spec2Model ----
(***************************************************************************)
(* Model of scrape.py: a linear fetch -> locate table -> extract rows ->   *)
(* normalize -> write pipeline over two pages (municipal corporations,     *)
(* municipalities).                                                        *)
(*                                                                         *)
(* A Python str is a sequence of one-character strings.  A character with  *)
(* no TLA+ escape is written by its code point ("U+00A0"); U+00B2          *)
(* (SUPERSCRIPT TWO), for which str.isdigit() is true and int() raises     *)
(* ValueError, is written "SUP2"; "U+0663" (ARABIC-INDIC DIGIT THREE)      *)
(* stands for the decimal digits outside ASCII.  A dict is a sequence of   *)
(* [key, val] records in insertion order.                                  *)
(***************************************************************************)
EXTENDS Integers, Sequences, FiniteSets, TLC

VARIABLES pc, table, m_table, rows, data, cleaned_data, file, stdout, exc, log

vars == <<pc, table, m_table, rows, data, cleaned_data, file, stdout, exc, log>>

(***************************************************************************)
(* Bounds of the model: data rows per table (the header row comes on top). *)
(***************************************************************************)
MaxCorpRows == 2
MaxMuniRows == 2

(***************************************************************************)
(* Program constants.                                                      *)
(***************************************************************************)
MinCorpCols == 6
MinMuniCols == 3
CorpDefaultWards == 100
MuniDefaultWards == 30

CorpSuffix == <<" ", "C", "o", "r", "p", "o", "r", "a", "t", "i", "o", "n">>
MuniSuffix == <<" ", "M", "u", "n", "i", "c", "i", "p", "a", "l", "i", "t", "y">>
DoneLine == "Finished writing to scraped_wards.json"

(***************************************************************************)
(* Python str methods.                                                     *)
(***************************************************************************)
\* the characters of str.isspace(): what str.strip() and str.split() remove
Whitespace ==
    {"\t", "\n", "U+000B", "\f", "\r", "U+001C", "U+001D", "U+001E", "U+001F", " ",
     "U+0085", "U+00A0", "U+1680", "U+2000", "U+2001", "U+2002", "U+2003",
     "U+2004", "U+2005", "U+2006", "U+2007", "U+2008", "U+2009", "U+200A",
     "U+2028", "U+2029", "U+202F", "U+205F", "U+3000"}

\* the whitespace int() accepts around a literal: not the separators 1C-1F
IntWhitespace == Whitespace \ {"U+001C", "U+001D", "U+001E", "U+001F"}

\* str.isdecimal() characters: the ASCII digits and one from another script
DecimalDigits == {"0", "1", "2", "3", "4", "5", "6", "7", "8", "9", "U+0663"}

\* int() of a text with more digits raises ValueError
\* (CPython's default sys.get_int_max_str_digits())
IntMaxStrDigits == 4300

DigitValue(c) ==
    CASE c = "0" -> 0 [] c = "1" -> 1 [] c = "2" -> 2 [] c = "3" -> 3
      [] c = "4" -> 4 [] c = "5" -> 5 [] c = "6" -> 6 [] c = "7" -> 7
      [] c = "8" -> 8 [] c = "9" -> 9 [] c = "U+0663" -> 3

RECURSIVE LStripOf(_, _)
LStripOf(s, W) ==
    IF s = <<>> THEN <<>>
    ELSE IF Head(s) \in W THEN LStripOf(Tail(s), W) ELSE s

RECURSIVE RStripOf(_, _)
RStripOf(s, W) ==
    IF s = <<>> THEN <<>>
    ELSE IF s[Len(s)] \in W THEN RStripOf(SubSeq(s, 1, Len(s) - 1), W) ELSE s

LStrip(s) == LStripOf(s, Whitespace)

RStrip(s) == RStripOf(s, Whitespace)

\* str.strip()
Strip(s) == RStrip(LStrip(s))

\* the literal int() reads, without the whitespace around it
IntStrip(s) == RStripOf(LStripOf(s, IntWhitespace), IntWhitespace)

\* str.split(sep)[0]: the text before the first occurrence of sep
RECURSIVE SplitFirst(_, _)
SplitFirst(s, sep) ==
    IF s = <<>> THEN <<>>
    ELSE IF Head(s) = sep THEN <<>>
    ELSE <<Head(s)>> \o SplitFirst(Tail(s), sep)

\* the first word of a text that starts with a non-whitespace character
FirstWord(s) ==
    LET at == {k \in 1..Len(s) : s[k] \in Whitespace}
    IN  IF at = {} THEN s
        ELSE SubSeq(s, 1, (CHOOSE m \in at : \A n \in at : m <= n) - 1)

\* str.split(): whether the list of whitespace-delimited tokens is non-empty
HasToken(s) == LStrip(s) # <<>>

\* str.split()[0], for a text with a token
FirstToken(s) == FirstWord(LStrip(s))

\* str.isdigit(): non-empty, every character a digit (superscripts included)
IsDigit(s) == s # <<>> /\ \A k \in 1..Len(s) : s[k] \in DecimalDigits \cup {"SUP2"}

\* int(str): whether the text is an integer literal (sign, digits, single
\* underscores between digits, surrounding whitespace) of at most
\* IntMaxStrDigits digits
IntParses(s) ==
    LET t == IntStrip(s)
        b == IF t # <<>> /\ t[1] \in {"+", "-"} THEN Tail(t) ELSE t
    IN  /\ b # <<>>
        /\ Cardinality({k \in 1..Len(b) : b[k] # "_"}) <= IntMaxStrDigits
        /\ \A k \in 1..Len(b) : b[k] \in DecimalDigits \cup {"_"}
        /\ b[1] # "_"
        /\ b[Len(b)] # "_"
        /\ \A k \in 1..(Len(b) - 1) : ~(b[k] = "_" /\ b[k + 1] = "_")

RECURSIVE DigitsValue(_, _)
DigitsValue(b, acc) ==
    IF b = <<>> THEN acc
    ELSE IF Head(b) = "_" THEN DigitsValue(Tail(b), acc)
    ELSE DigitsValue(Tail(b), 10 * acc + DigitValue(Head(b)))

\* int(str) of a text that parses (Python integers are unbounded; the texts
\* of the model stay below ten digits)
IntValue(s) ==
    LET t == IntStrip(s)
    IN  IF t[1] = "-" THEN 0 - DigitsValue(Tail(t), 0)
        ELSE IF t[1] = "+" THEN DigitsValue(Tail(t), 0)
        ELSE DigitsValue(t, 0)

(***************************************************************************)
(* Python dict: insertion-ordered; assigning to an existing key keeps the  *)
(* key's position.                                                         *)
(***************************************************************************)
DictHas(d, k) == \E i \in 1..Len(d) : d[i].key = k

DictGet(d, k) == d[CHOOSE i \in 1..Len(d) : d[i].key = k].val

DictSet(d, k, v) ==
    IF DictHas(d, k)
    THEN [i \in 1..Len(d) |-> IF d[i].key = k THEN [key |-> k, val |-> v] ELSE d[i]]
    ELSE Append(d, [key |-> k, val |-> v])

\* dict.update(other)
RECURSIVE DictUpdate(_, _)
DictUpdate(d, other) ==
    IF other = <<>> THEN d
    ELSE DictUpdate(DictSet(d, Head(other).key, Head(other).val), Tail(other))

\* defaultdict(dict): data[district][unit] = wards
DataSet(d, district, unit, wards) ==
    LET inner == IF DictHas(d, district) THEN DictGet(d, district) ELSE <<>>
    IN  DictSet(d, district, DictSet(inner, unit, wards))

(***************************************************************************)
(* Row extraction.  A row (tr) is a sequence of cells [tag, text]; cols is *)
(* the list of stripped cell texts.  Python index n is index n + 1 here.   *)
(***************************************************************************)
RECURSIVE StripAll(_)
StripAll(cells) ==
    IF cells = <<>> THEN <<>>
    ELSE <<Strip(Head(cells).text)>> \o StripAll(Tail(cells))

IsTd(cell) == cell.tag = "td"

\* cols of a corporation row: td and th cells
CorpCols(row) == StripAll(row)

\* (mutation of MuniCols: th cells are counted too)
MuniCols_AllCells(row) == StripAll(row)

\* cols of a municipality row: td cells only
MuniCols(row) == StripAll(SelectSeq(row, IsTd))

CorpAccepts(cols) == Len(cols) >= MinCorpCols

MuniAccepts(cols) == Len(cols) >= MinMuniCols

\* try: int(cols[5].split()[0])  except: 100
CorpWards(cols) ==
    IF Len(cols) < 6 THEN CorpDefaultWards
    ELSE IF ~HasToken(cols[6]) THEN CorpDefaultWards
    ELSE IF ~IntParses(FirstToken(cols[6])) THEN CorpDefaultWards
    ELSE IntValue(FirstToken(cols[6]))

CorpUnit(cols) == cols[2] \o CorpSuffix

CorpDistrict(cols) == cols[5]

\* int(cols[3]) raises ValueError: nothing around it catches
MuniRaises(cols) == Len(cols) >= 4 /\ IsDigit(cols[4]) /\ ~IntParses(cols[4])

MuniWards(cols) ==
    IF Len(cols) >= 4 /\ IsDigit(cols[4]) THEN IntValue(cols[4])
    ELSE MuniDefaultWards

MuniUnit(cols) == cols[2] \o MuniSuffix

MuniDistrict(cols) == cols[3]

(***************************************************************************)
(* Normalization.                                                          *)
(***************************************************************************)
\* (mutation of CleanName: the strip is dropped)
CleanName_NoStrip(name) == SplitFirst(name, "[")

\* name.split('[')[0].strip()
CleanName(name) == Strip(SplitFirst(name, "["))

RECURSIVE CleanUlbs(_, _)
CleanUlbs(ulbs, c_ulbs) ==
    IF ulbs = <<>> THEN c_ulbs
    ELSE CleanUlbs(Tail(ulbs),
                   DictSet(c_ulbs, CleanName(Head(ulbs).key), Head(ulbs).val))

RECURSIVE CleanData(_, _)
CleanData(d, cleaned) ==
    IF d = <<>> THEN cleaned
    ELSE LET c_dist == CleanName(Head(d).key)
             c_ulbs == CleanUlbs(Head(d).val, <<>>)
             have   == IF DictHas(cleaned, c_dist) THEN cleaned
                       ELSE DictSet(cleaned, c_dist, <<>>)
         IN  CleanData(Tail(d),
                       DictSet(have, c_dist, DictUpdate(DictGet(have, c_dist), c_ulbs)))

(***************************************************************************)
(* The pages the two GETs may return.                                      *)
(***************************************************************************)
td(t) == [tag |-> "td", text |-> t]
th(t) == [tag |-> "th", text |-> t]

NoTable == [found |-> FALSE, trs |-> <<>>]

CorpHeader ==
    <<th(<<"#">>), th(<<"N">>), th(<<"s">>), th(<<"p">>), th(<<"D">>), th(<<"W">>)>>

MuniHeader == <<td(<<"#">>), td(<<"N">>), td(<<"D">>)>>

\* a digit text one digit over what int() takes
LongDigits == [k \in 1..(IntMaxStrDigits + 1) |-> "1"]

CorpRows ==
    { <<td(<<"1">>), td(<<"X">>), td(<<"s">>), td(<<"p">>), td(<<"A">>)>>,
      <<td(<<"1", "\n">>), th(<<"X", "[", "1", "]", "\n">>), td(<<"s", "\n">>),
        td(<<"p", "\n">>), td(<<"A", "[", "1", "]", "\n">>), td(<<"1", "\n">>)>>,
      <<td(<<"2">>), td(<<"X", "[", "1", "]">>), td(<<"s">>), td(<<"p">>),
        td(<<" ", "A", "\n">>), td(<<"2", "\n", "(", "n", ")">>)>>,
      <<td(<<"3">>), td(<<"X">>), td(<<"s">>), td(<<"p">>), td(<<"A">>),
        td(<<"-", "5">>)>>,
      <<td(<<"4">>), td(<<"Y", "U+00A0", "[", "2", "]", "[", "3", "]">>), td(<<"s">>),
        td(<<"p">>), td(<<"B">>), td(<<"n", "/", "a">>)>>,
      <<td(<<"5">>), td(<<"Y">>), td(<<"s">>), td(<<"p">>), td(<<"B">>),
        td(<<>>), td(<<"r">>)>>,
      <<td(<<"6">>), td(<<"Z">>), td(<<"s">>), td(<<"p">>), td(<<"B">>),
        td(<<"SUP2">>)>> }

MuniRows ==
    { <<td(<<"1">>), th(<<"X">>), td(<<"A">>)>>,
      <<td(<<"1">>), td(<<"X", "[", "1", "]">>), td(<<"A", "[", "1", "]">>),
        td(<<"1", "2">>)>>,
      <<td(<<"2">>), td(<<"X">>), td(<<"A">>)>>,
      <<td(<<"3">>), td(<<"Z">>), td(<<"B">>), td(<<"SUP2">>)>>,
      <<th(<<"4">>), td(<<"4">>), td(<<"Y", "[", "4", "]">>),
        td(<<"B", " ", "[", "5", "]", "\n">>), td(<<"4", "a">>)>> }

SeqsUpTo(S, n) == UNION {[1..k -> S] : k \in 0..n}

CorpPages ==
    {NoTable, [found |-> TRUE, trs |-> <<>>]}
        \cup {[found |-> TRUE, trs |-> <<CorpHeader>> \o s] :
                s \in SeqsUpTo(CorpRows, MaxCorpRows)}

\* a municipality row whose ward cell is over the digit limit of int()
LongDigitsRow == <<td(<<"5">>), td(<<"L">>), td(<<"C">>), td(LongDigits)>>

MuniPages ==
    {NoTable, [found |-> TRUE, trs |-> <<>>],
     [found |-> TRUE, trs |-> <<MuniHeader, LongDigitsRow>>]}
        \cup {[found |-> TRUE, trs |-> <<MuniHeader>> \o s] :
                s \in SeqsUpTo(MuniRows, MaxMuniRows)}

\* scraped_wards.json before the run: absent, or holding an earlier result
OldContent == <<[key |-> <<"O">>, val |-> <<[key |-> <<"U">>, val |-> 7]>>]>>

InitialFiles ==
    {[state |-> "absent", content |-> <<>>], [state |-> "old", content |-> OldContent]}

(***************************************************************************)
(* The run.                                                                *)
(***************************************************************************)
Init ==
    /\ pc = "fetch_corp"
    /\ table = NoTable
    /\ m_table = NoTable
    /\ rows = <<>>
    /\ data = <<>>
    /\ cleaned_data = <<>>
    /\ file \in InitialFiles
    /\ stdout = <<>>
    /\ exc = "none"
    /\ log = <<>>

\* requests.get(corporations_url) and the parse of its body
FetchCorp ==
    /\ pc = "fetch_corp"
    /\ log' = Append(log, "fetch_corp")
    /\ \/ /\ pc' = "aborted"
          /\ exc' = "ConnectionError"
          /\ table' = table
       \/ /\ \E page \in CorpPages : table' = page
          /\ pc' = "locate_corp"
          /\ exc' = exc
    /\ UNCHANGED <<m_table, rows, data, cleaned_data, file, stdout>>

\* (mutation of LocateCorp: no "if table:" guard, find_all is called on None)
LocateCorp_NoGuard ==
    /\ pc = "locate_corp"
    /\ IF table.found
       THEN /\ rows' = IF table.trs = <<>> THEN <<>> ELSE Tail(table.trs)
            /\ pc' = "extract_corp"
            /\ log' = Append(log, "extract_corp")
            /\ exc' = exc
       ELSE /\ pc' = "aborted"
            /\ exc' = "AttributeError"
            /\ UNCHANGED <<rows, log>>
    /\ UNCHANGED <<table, m_table, data, cleaned_data, file, stdout>>

\* if table: for row in table.find_all('tr')[1:]
LocateCorp ==
    /\ pc = "locate_corp"
    /\ IF table.found
       THEN /\ rows' = IF table.trs = <<>> THEN <<>> ELSE Tail(table.trs)
            /\ pc' = "extract_corp"
            /\ log' = Append(log, "extract_corp")
       ELSE /\ pc' = "fetch_muni"
            /\ UNCHANGED <<rows, log>>
    /\ UNCHANGED <<table, m_table, data, cleaned_data, file, stdout, exc>>

\* one iteration of the corporation loop
CorpRow ==
    /\ pc = "extract_corp"
    /\ rows # <<>>
    /\ LET cols == CorpCols(Head(rows))
       IN  data' = IF CorpAccepts(cols)
                   THEN DataSet(data, CorpDistrict(cols), CorpUnit(cols), CorpWards(cols))
                   ELSE data
    /\ rows' = Tail(rows)
    /\ UNCHANGED <<pc, table, m_table, cleaned_data, file, stdout, exc, log>>

CorpEnd ==
    /\ pc = "extract_corp"
    /\ rows = <<>>
    /\ pc' = "fetch_muni"
    /\ UNCHANGED <<table, m_table, rows, data, cleaned_data, file, stdout, exc, log>>

\* (mutation of FetchMuni: the network error is swallowed and the run goes on)
FetchMuni_Swallow ==
    /\ pc = "fetch_muni"
    /\ log' = Append(log, "fetch_muni")
    /\ \/ /\ pc' = "normalize"
          /\ exc' = "ConnectionError"
          /\ m_table' = m_table
       \/ /\ \E page \in MuniPages : m_table' = page
          /\ pc' = "locate_muni"
          /\ exc' = exc
    /\ UNCHANGED <<table, rows, data, cleaned_data, file, stdout>>

\* requests.get(m_url) and the parse of its body
FetchMuni ==
    /\ pc = "fetch_muni"
    /\ log' = Append(log, "fetch_muni")
    /\ \/ /\ pc' = "aborted"
          /\ exc' = "ConnectionError"
          /\ m_table' = m_table
       \/ /\ \E page \in MuniPages : m_table' = page
          /\ pc' = "locate_muni"
          /\ exc' = exc
    /\ UNCHANGED <<table, rows, data, cleaned_data, file, stdout>>

\* if m_table: for row in m_table.find_all('tr')[1:]
LocateMuni ==
    /\ pc = "locate_muni"
    /\ IF m_table.found
       THEN /\ rows' = IF m_table.trs = <<>> THEN <<>> ELSE Tail(m_table.trs)
            /\ pc' = "extract_muni"
            /\ log' = Append(log, "extract_muni")
       ELSE /\ pc' = "normalize"
            /\ UNCHANGED <<rows, log>>
    /\ UNCHANGED <<table, m_table, data, cleaned_data, file, stdout, exc>>

\* one iteration of the municipality loop
MuniRow ==
    /\ pc = "extract_muni"
    /\ rows # <<>>
    /\ LET cols == MuniCols(Head(rows))
       IN  IF MuniAccepts(cols) /\ MuniRaises(cols)
           THEN /\ pc' = "aborted"
                /\ exc' = "ValueError"
                /\ UNCHANGED <<rows, data>>
           ELSE /\ data' = IF MuniAccepts(cols)
                           THEN DataSet(data, MuniDistrict(cols), MuniUnit(cols),
                                        MuniWards(cols))
                           ELSE data
                /\ rows' = Tail(rows)
                /\ UNCHANGED <<pc, exc>>
    /\ UNCHANGED <<table, m_table, cleaned_data, file, stdout, log>>

MuniEnd ==
    /\ pc = "extract_muni"
    /\ rows = <<>>
    /\ pc' = "normalize"
    /\ UNCHANGED <<table, m_table, rows, data, cleaned_data, file, stdout, exc, log>>

\* the clean-up loop over data.items()
Normalize ==
    /\ pc = "normalize"
    /\ cleaned_data' = CleanData(data, <<>>)
    /\ pc' = "write"
    /\ log' = Append(log, "normalize")
    /\ UNCHANGED <<table, m_table, rows, data, file, stdout, exc>>

\* (mutation of Write: a failed write is swallowed and the print still runs)
Write_PrintsOnFailure ==
    /\ pc = "write"
    /\ log' = Append(log, "write")
    /\ \/ /\ file' = [state |-> "written", content |-> cleaned_data]
          /\ exc' = exc
       \/ /\ file' = file
          /\ exc' = "OSError"
       \/ /\ file' = [state |-> "partial", content |-> <<>>]
          /\ exc' = "OSError"
    /\ pc' = "print"
    /\ UNCHANGED <<table, m_table, rows, data, cleaned_data, stdout>>

\* with open('scraped_wards.json', 'w') as f: json.dump(cleaned_data, f, indent=2)
\* open may fail (the file is untouched); open truncates, and the dump may
\* fail after it (the file is left partial)
Write ==
    /\ pc = "write"
    /\ log' = Append(log, "write")
    /\ \/ /\ file' = [state |-> "written", content |-> cleaned_data]
          /\ pc' = "print"
          /\ exc' = exc
       \/ /\ file' = file
          /\ pc' = "aborted"
          /\ exc' = "OSError"
       \/ /\ file' = [state |-> "partial", content |-> <<>>]
          /\ pc' = "aborted"
          /\ exc' = "OSError"
    /\ UNCHANGED <<table, m_table, rows, data, cleaned_data, stdout>>

\* print("Finished writing to scraped_wards.json")
PrintDone ==
    /\ pc = "print"
    /\ stdout' = Append(stdout, DoneLine)
    /\ pc' = "done"
    /\ log' = Append(log, "print")
    /\ UNCHANGED <<table, m_table, rows, data, cleaned_data, file, exc>>

Next ==
    \/ FetchCorp
    \/ LocateCorp
    \/ CorpRow
    \/ CorpEnd
    \/ FetchMuni
    \/ LocateMuni
    \/ MuniRow
    \/ MuniEnd
    \/ Normalize
    \/ Write
    \/ PrintDone

Spec == Init /\ [][Next]_vars

(***************************************************************************)
(* Vocabulary of the properties.                                           *)
(***************************************************************************)
InLog(e) == \E i \in 1..Len(log) : log[i] = e

HasBracket(s) == \E k \in 1..Len(s) : s[k] = "["

EndsWith(s, suffix) ==
    /\ Len(s) >= Len(suffix)
    /\ SubSeq(s, Len(s) - Len(suffix) + 1, Len(s)) = suffix

TdCount(row) == Cardinality({k \in 1..Len(row) : row[k].tag = "td"})

\* the records of the accepted rows after the header row, in row order
RECURSIVE CorpRecords(_)
CorpRecords(trs) ==
    IF trs = <<>> THEN <<>>
    ELSE LET cols == CorpCols(Head(trs))
         IN  (IF CorpAccepts(cols)
              THEN <<[district |-> CorpDistrict(cols), unit |-> CorpUnit(cols),
                      wards |-> CorpWards(cols), kind |-> "corporation"]>>
              ELSE <<>>) \o CorpRecords(Tail(trs))

RECURSIVE MuniRecords(_)
MuniRecords(trs) ==
    IF trs = <<>> THEN <<>>
    ELSE LET cols == MuniCols(Head(trs))
         IN  (IF MuniAccepts(cols)
              THEN <<[district |-> MuniDistrict(cols), unit |-> MuniUnit(cols),
                      wards |-> MuniWards(cols), kind |-> "municipality"]>>
              ELSE <<>>) \o MuniRecords(Tail(trs))

DataRows(t) == IF t.found /\ t.trs # <<>> THEN Tail(t.trs) ELSE <<>>

\* every accepted row of the run, in scrape order
AcceptedRecords == CorpRecords(DataRows(table)) \o MuniRecords(DataRows(m_table))

RECURSIVE FoldRecords(_, _)
FoldRecords(recs, d) ==
    IF recs = <<>> THEN d
    ELSE FoldRecords(Tail(recs),
                     DataSet(d, Head(recs).district, Head(recs).unit, Head(recs).wards))

HasEntry(d, district, unit) ==
    DictHas(d, district) /\ DictHas(DictGet(d, district), unit)

Entry(d, district, unit) == DictGet(DictGet(d, district), unit)

\* the text before the first '[' (all of it when there is none)
BeforeFirstBracket(raw) ==
    LET at == {k \in 1..Len(raw) : raw[k] = "["}
    IN  IF at = {} THEN raw
        ELSE SubSeq(raw, 1, (CHOOSE m \in at : \A n \in at : m <= n) - 1)

\* c is p without its leading and trailing whitespace
IsTrimOf(p, c) ==
    \E i \in 1..(Len(p) + 1) : \E j \in (i - 1)..Len(p) :
        /\ c = SubSeq(p, i, j)
        /\ \A k \in 1..(i - 1) : p[k] \in Whitespace
        /\ \A k \in (j + 1)..Len(p) : p[k] \in Whitespace
        /\ c # <<>> => (c[1] \notin Whitespace /\ c[Len(c)] \notin Whitespace)

IsCleanOf(raw, c) == IsTrimOf(BeforeFirstBracket(raw), c)

(***************************************************************************)
(* C1: when several accepted rows resolve to the same (cleaned district,   *)
(* cleaned unit) pair, the final output holds the ward count of the row    *)
(* processed latest in scrape order.                                       *)
(***************************************************************************)
C1_LastRowWins ==
    InLog("normalize") =>
        LET recs == AcceptedRecords
        IN  \A i \in 1..Len(recs) :
                (\A j \in (i + 1)..Len(recs) :
                    ~(/\ CleanName(recs[j].district) = CleanName(recs[i].district)
                      /\ CleanName(recs[j].unit) = CleanName(recs[i].unit)))
                => /\ HasEntry(cleaned_data, CleanName(recs[i].district),
                               CleanName(recs[i].unit))
                   /\ Entry(cleaned_data, CleanName(recs[i].district),
                            CleanName(recs[i].unit)) = recs[i].wards

(***************************************************************************)
(* C2: every unit key of the final output carries its type suffix: the key *)
(* of an accepted corporation row ends with " Corporation", the key of an  *)
(* accepted municipality row ends with " Municipality".                    *)
(***************************************************************************)
C2_KeysCarrySuffix ==
    InLog("normalize") =>
        LET recs == AcceptedRecords
        IN  /\ \A i \in 1..Len(recs) :
                  EndsWith(CleanName(recs[i].unit),
                           IF recs[i].kind = "corporation" THEN CorpSuffix
                           ELSE MuniSuffix)
            /\ \A o \in 1..Len(cleaned_data) :
                  \A u \in 1..Len(cleaned_data[o].val) :
                      \/ EndsWith(cleaned_data[o].val[u].key, CorpSuffix)
                      \/ EndsWith(cleaned_data[o].val[u].key, MuniSuffix)

(***************************************************************************)
(* C3: every output key is the text before the first '[' of an accumulated *)
(* raw key, trimmed, every raw key has such an output key, and no output   *)
(* key contains '['.                                                       *)
(***************************************************************************)
C3_NameCleaning ==
    InLog("normalize") =>
        /\ \A i \in 1..Len(data) : \E o \in 1..Len(cleaned_data) :
              /\ IsCleanOf(data[i].key, cleaned_data[o].key)
              /\ \A u \in 1..Len(data[i].val) :
                    \E v \in 1..Len(cleaned_data[o].val) :
                        IsCleanOf(data[i].val[u].key, cleaned_data[o].val[v].key)
        /\ \A o \in 1..Len(cleaned_data) :
              /\ \E i \in 1..Len(data) : IsCleanOf(data[i].key, cleaned_data[o].key)
              /\ ~HasBracket(cleaned_data[o].key)
              /\ \A v \in 1..Len(cleaned_data[o].val) :
                    /\ ~HasBracket(cleaned_data[o].val[v].key)
                    /\ \E i \in 1..Len(data) : \E u \in 1..Len(data[i].val) :
                          /\ IsCleanOf(data[i].key, cleaned_data[o].key)
                          /\ IsCleanOf(data[i].val[u].key, cleaned_data[o].val[v].key)

\* a finished run whose raw keys held a footnote marker after whitespace
C3_Witness ==
    /\ pc = "done"
    /\ \E i \in 1..Len(data) : HasBracket(data[i].key)
    /\ \E i \in 1..Len(data) : \E u \in 1..Len(data[i].val) :
          LET raw == data[i].val[u].key
          IN  /\ HasBracket(raw)
              /\ BeforeFirstBracket(raw) # <<>>
              /\ BeforeFirstBracket(raw)[Len(BeforeFirstBracket(raw))] \in Whitespace

(***************************************************************************)
(* C4: a corporation row with fewer than 6 cells (td and th), or a         *)
(* municipality row with fewer than 3 td cells, leaves the accumulated     *)
(* mapping unchanged and the loop goes on to the next row; the first row   *)
(* of a table is skipped as the header and yields no record.               *)
(***************************************************************************)
C4_ShortRowsSkipped ==
    [][ /\ (pc = "extract_corp" /\ rows # <<>> /\ Len(Head(rows)) < 6)
            => (data' = data /\ rows' = Tail(rows) /\ pc' = "extract_corp")
        /\ (pc = "extract_muni" /\ rows # <<>> /\ TdCount(Head(rows)) < 3)
            => (data' = data /\ rows' = Tail(rows) /\ pc' = "extract_muni")
        /\ (pc = "locate_corp" /\ table.found /\ table.trs # <<>>)
            => (data' = data /\ rows' = Tail(table.trs))
        /\ (pc = "locate_muni" /\ m_table.found /\ m_table.trs # <<>>)
            => (data' = data /\ rows' = Tail(m_table.trs))
      ]_vars

\* a finished run in which both loops passed a short row and then took a record
C4_Witness ==
    /\ pc = "done"
    /\ Len(table.trs) = 3 /\ Len(table.trs[2]) < 6 /\ Len(table.trs[3]) >= 6
    /\ Len(m_table.trs) = 3 /\ TdCount(m_table.trs[2]) < 3
    /\ Len(m_table.trs[2]) >= 3 /\ TdCount(m_table.trs[3]) >= 3
    /\ Len(AcceptedRecords) = 2

(***************************************************************************)
(* C5: an accepted corporation row records the integer value of the        *)
(* leading token of cell 5 when it parses, and 100 otherwise; an accepted  *)
(* municipality row records the integer value of cell 3 when it exists and *)
(* is all decimal digits, and 30 otherwise.                                *)
(***************************************************************************)
C5_WardDefaulting ==
    [][ /\ (pc = "extract_corp" /\ rows # <<>> /\ Len(CorpCols(Head(rows))) >= 6)
            => LET cols == CorpCols(Head(rows))
                   want == IF HasToken(cols[6]) /\ IntParses(FirstToken(cols[6]))
                           THEN IntValue(FirstToken(cols[6])) ELSE 100
               IN  /\ HasEntry(data', cols[5], cols[2] \o CorpSuffix)
                   /\ Entry(data', cols[5], cols[2] \o CorpSuffix) = want
        /\ (pc = "extract_muni" /\ rows # <<>> /\ Len(MuniCols(Head(rows))) >= 3)
            => LET cols == MuniCols(Head(rows))
                   decimal == /\ Len(cols) >= 4
                              /\ cols[4] # <<>>
                              /\ \A k \in 1..Len(cols[4]) : cols[4][k] \in DecimalDigits
                   want == IF decimal THEN IntValue(cols[4]) ELSE 30
               IN  /\ HasEntry(data', cols[3], cols[2] \o MuniSuffix)
                   /\ Entry(data', cols[3], cols[2] \o MuniSuffix) = want
      ]_vars

(***************************************************************************)
(* C6: a page without a wikitable contributes no record and raises         *)
(* nothing: the run goes on to the next stage, the records are those of    *)
(* the other page alone, and a run that reaches its end with both tables   *)
(* missing has written an empty mapping and printed the completion line.   *)
(***************************************************************************)
C6_MissingTableTolerated ==
    [][ /\ (pc = "locate_corp" /\ ~table.found)
            => (data' = data /\ pc' = "fetch_muni" /\ exc' = "none")
        /\ (pc = "locate_muni" /\ ~m_table.found)
            => (data' = data /\ pc' = "normalize" /\ exc' = "none")
        /\ (pc' = "done" /\ ~table'.found)
            => /\ data' = FoldRecords(MuniRecords(DataRows(m_table')), <<>>)
               /\ file' = [state |-> "written", content |-> CleanData(data', <<>>)]
               /\ stdout' = <<DoneLine>>
        /\ (pc' = "done" /\ ~m_table'.found)
            => /\ data' = FoldRecords(CorpRecords(DataRows(table')), <<>>)
               /\ file' = [state |-> "written", content |-> CleanData(data', <<>>)]
               /\ stdout' = <<DoneLine>>
        /\ (pc' = "done" /\ ~table'.found /\ ~m_table'.found)
            => file'.content = <<>>
      ]_vars

\* a finished run whose corporation page had no table and whose municipality
\* page gave records
C6_Witness ==
    /\ pc = "done"
    /\ ~table.found
    /\ m_table.found
    /\ data # <<>>
    /\ file.state = "written"
    /\ stdout = <<DoneLine>>

(***************************************************************************)
(* C7: no content of a row aborts the run: an abort comes only from a      *)
(* failed fetch or a failed write, never from row extraction.              *)
(***************************************************************************)
C7_NoRowAborts == pc = "aborted" => exc \in {"ConnectionError", "OSError"}

(***************************************************************************)
(* C8: every ward count of the accumulator and of the output is a          *)
(* non-negative integer.                                                   *)
(***************************************************************************)
C8_WardsNonNegative ==
    /\ \A i \in 1..Len(data) : \A u \in 1..Len(data[i].val) :
          data[i].val[u].val \in Nat
    /\ \A o \in 1..Len(cleaned_data) : \A v \in 1..Len(cleaned_data[o].val) :
          cleaned_data[o].val[v].val \in Nat

(***************************************************************************)
(* C9: the stages begin in the order fetch corporation, extract            *)
(* corporation, fetch municipality, extract municipality, normalize,       *)
(* write, print, each at most once; the file is touched only by the write, *)
(* which comes after both passes and the normalization; the completion     *)
(* line is printed only after a successful write.                          *)
(***************************************************************************)
StageRank(e) ==
    CASE e = "fetch_corp" -> 1 [] e = "extract_corp" -> 2 [] e = "fetch_muni" -> 3
      [] e = "extract_muni" -> 4 [] e = "normalize" -> 5 [] e = "write" -> 6
      [] e = "print" -> 7

C9_StageOrder ==
    /\ \A i \in 1..(Len(log) - 1) : StageRank(log[i]) < StageRank(log[i + 1])
    /\ InLog("write") =>
          /\ InLog("fetch_corp") /\ InLog("fetch_muni") /\ InLog("normalize")
          /\ table.found => InLog("extract_corp")
          /\ m_table.found => InLog("extract_muni")
          /\ rows = <<>>
          /\ cleaned_data = CleanData(data, <<>>)
    /\ file \notin InitialFiles => InLog("write")
    /\ stdout # <<>> =>
          /\ stdout = <<DoneLine>>
          /\ InLog("write") /\ InLog("print")
          /\ file = [state |-> "written", content |-> cleaned_data]
          /\ exc = "none"
    /\ pc = "aborted" => stdout = <<>>

\* a finished run that went through all seven stages
C9_Witness ==
    /\ pc = "done"
    /\ log = <<"fetch_corp", "extract_corp", "fetch_muni", "extract_muni",
               "normalize", "write", "print">>
    /\ data # <<>>

(***************************************************************************)
(* C10: after a failed GET of either page the run is over, the output file *)
(* is as it was before the run, and no completion line is printed.         *)
(***************************************************************************)
C10_FailedFetchLeavesFile ==
    exc = "ConnectionError" =>
        /\ pc = "aborted"
        /\ file \in InitialFiles
        /\ ~InLog("write")
        /\ stdout = <<>>

\* the municipality GET failed after the corporation pass had taken records,
\* with an earlier output file in place
C10_Witness ==
    /\ exc = "ConnectionError"
    /\ InLog("fetch_muni")
    /\ data # <<>>
    /\ file = [state |-> "old", content |-> OldContent]

====
